---------------------------- MODULE Spec2Model ----------------------------
(***************************************************************************)
(* Two Caffe layers: RoundLayer (src/caffe/layers/round_layer.cpp) and     *)
(* SmoothL1LossLayer (src/caffe/layers/smooth_L1_loss_layer.cpp).          *)
(*                                                                         *)
(* Dtype values are modelled as exact rationals <<n, d>> in lowest terms   *)
(* with d > 0.  All value sets below are dyadic, so that the arithmetic    *)
(* of the code is exact on them.                                           *)
(***************************************************************************)
EXTENDS Integers, Sequences, FiniteSets, TLC

VARIABLES
  \* ---- RoundLayer and its two blobs
  rd_pc,        \* "new" | "fed" | "ready" | "done"
  rd_inplace,   \* TRUE when the host passes top[0] == bottom[0]
  rd_shape,     \* shape of bottom[0]
  rd_in,        \* value view of bottom[0]
  rd_arg,       \* history: the value view of bottom[0] when Forward_cpu was entered
  rd_top_shape, \* shape of top[0]
  rd_out        \* value view of top[0]

rd_vars == <<rd_pc, rd_inplace, rd_shape, rd_in, rd_arg, rd_top_shape, rd_out>>

VARIABLES
  \* ---- SmoothL1LossLayer, its bottoms and its top
  pc,           \* "new" | "setup" | "shaped" | "reshaped" | "ready" | "aborted" | "corrupted"
  nb,           \* bottom.size(): 2, 3 or 4, fixed by the net
  sigma,        \* smooth_l1_loss_param().sigma()
  sigma2_,      \* member sigma2_
  has_weights_, \* member has_weights_
  shape,        \* shape[k]: shape of bottom[k-1]
  data,         \* data[k]: value view of bottom[k-1]
  gdiff,        \* gdiff[k]: gradient view of bottom[k-1]
  top_data,     \* top[0]->cpu_data()[0]
  top_diff,     \* top[0]->cpu_diff()[0], set by the host
  pd,           \* propagate_down[k-1], fixed by the net for every Backward
  diff_,        \* member blob diff_: [shape, data]
  errors_,      \* member blob errors_: [shape, data]
  ones_,        \* member blob ones_: [shape, data]
  \* ---- history of the last call
  lastop,       \* the last of Forward and Backward to run: "none" | "forward" | "backward"
  nbwd,         \* Backward calls since the last Forward: 0, 1, or 2 for two or more
  fdiff,        \* contents of diff_ when the last Forward returned
  wr,           \* wr[k]: the values the last Backward stored through bottom[k-1]->mutable_cpu_diff()
  acc           \* accesses of the last Forward/Backward: <<tensor, view, index>>

loss_vars == <<pc, nb, sigma, sigma2_, has_weights_, shape, data, gdiff, top_data,
               top_diff, pd, diff_, errors_, ones_, lastop, nbwd, fdiff, wr, acc>>

vars == <<rd_vars, loss_vars>>

-----------------------------------------------------------------------------
(* Bounds of the model *)

\* largest extent of one axis of a blob
MaxDim == 2
\* largest element count of a bottom blob of the loss layer
MaxCount == 2
\* largest number of axes of a RoundLayer blob
MaxAxes == 2
\* largest element count of a RoundLayer blob
RoundMaxCount == 2
\* RoundLayer inputs are the quarters k/4 with |k| <= RoundRange
RoundRange == 14

-----------------------------------------------------------------------------
(* Exact rational arithmetic standing for Dtype arithmetic *)

AbsI(n) == IF n < 0 THEN -n ELSE n

RECURSIVE GCD(_, _)
GCD(a, b) == IF b = 0 THEN a ELSE GCD(b, a % b)

Q(n, d) ==
  LET s == IF d < 0 THEN -1 ELSE 1
      g == GCD(AbsI(n), AbsI(d))
  IN  <<(s * n) \div g, (s * d) \div g>>

Zero == <<0, 1>>
One == <<1, 1>>
Half == <<1, 2>>
FromInt(n) == <<n, 1>>

RAdd(x, y) == Q(x[1] * y[2] + y[1] * x[2], x[2] * y[2])
RNeg(x) == <<-x[1], x[2]>>
RSub(x, y) == RAdd(x, RNeg(y))
RMul(x, y) == Q(x[1] * y[1], x[2] * y[2])
RDiv(x, y) == Q(x[1] * y[2], x[2] * y[1])
RLt(x, y) == x[1] * y[2] < y[1] * x[2]
RLe(x, y) == x[1] * y[2] <= y[1] * x[2]
RAbs(x) == <<AbsI(x[1]), x[2]>>
IsInt(x) == x[2] = 1
Floor(x) == x[1] \div x[2]

\* product of the extents of a shape vector: Blob::count()
RECURSIVE Prod(_)
Prod(s) == IF s = <<>> THEN 1 ELSE Head(s) * Prod(Tail(s))

-----------------------------------------------------------------------------
(* SmoothL1LossLayer: value sets of the host's inputs *)

Sigmas == {One, FromInt(2)}
PredVals == {FromInt(-2), Q(9, 8), FromInt(3)}
TargetVals == {One}
WeightVals == {Zero, FromInt(2)}
TopDiffs == {FromInt(2), RNeg(One)}
\* what a gradient buffer holds before Backward writes it
Stale == FromInt(7)
\* what a read past the end of a buffer may return
Garbage == {FromInt(-3), FromInt(5)}

ZeroShape == [num |-> 0, channels |-> 0, height |-> 0, width |-> 0]
Count(s) == s.num * s.channels * s.height * s.width
Shapes4 ==
  { s \in [num : 1..MaxDim, channels : 1..MaxDim, height : 1..MaxDim, width : 1..MaxDim] :
      Count(s) <= MaxCount }
Fill(n, v) == [i \in 1..n |-> v]
EmptyBlob == [shape |-> ZeroShape, data |-> <<>>]

\* Blob::Reshape: the shape is replaced; storage that is large enough is kept,
\* larger storage is allocated zeroed
BlobReshape(b, s) ==
  [shape |-> s,
   data |-> IF Count(s) <= Len(b.data) THEN SubSeq(b.data, 1, Count(s))
            ELSE Fill(Count(s), Zero)]

\* element i (1-based) of buffer buf; past its end the read is undefined
\* behaviour and returns whatever lies there
Rd(buf, i, junk) == IF i <= Len(buf) THEN buf[i] ELSE junk

\* what the reads of one call past the end of a buffer may return; a call
\* that indexes n elements of every bottom reads nothing else when no bottom
\* is shorter than n
Junk(n) ==
  IF \E k \in 1..nb : Len(data[k]) < n THEN Garbage ELSE {Zero}

LossFields(n, s) ==
  /\ pc = "new"
  /\ nb = n
  /\ sigma = s
  /\ sigma2_ = Zero
  /\ has_weights_ = FALSE
  /\ shape = [k \in 1..n |-> ZeroShape]
  /\ data = [k \in 1..n |-> <<>>]
  /\ gdiff = [k \in 1..n |-> <<>>]
  /\ top_data = Zero
  /\ top_diff = Zero
  /\ diff_ = EmptyBlob
  /\ errors_ = EmptyBlob
  /\ ones_ = EmptyBlob
  /\ lastop = "none"
  /\ nbwd = 0
  /\ pd = [k \in 1..2 |-> FALSE]
  /\ fdiff = <<>>
  /\ wr = << <<>>, <<>> >>
  /\ acc = {}

LossInit == \E n \in 2..4 : \E s \in Sigmas : LossFields(n, s)
LossIdle == LossFields(2, One)

history == <<lastop, nbwd, fdiff, wr, acc>>

LayerSetUp ==
  /\ pc = "new"
  /\ sigma2_' = RMul(sigma, sigma)
  /\ has_weights_' = (nb >= 3)
  /\ pc' = "setup"
  /\ UNCHANGED <<nb, sigma, shape, data, gdiff, top_data, top_diff, pd, diff_, errors_,
                 ones_, history>>

\* the net shapes the bottom blobs; fresh blob storage is zeroed
HostShape ==
  /\ pc = "setup"
  /\ \E sh \in [1..nb -> Shapes4] :
       /\ shape' = sh
       /\ data' = [k \in 1..nb |-> Fill(Count(sh[k]), Zero)]
       /\ gdiff' = [k \in 1..nb |-> Fill(Count(sh[k]), Zero)]
  /\ pc' = "shaped"
  /\ UNCHANGED <<nb, sigma, sigma2_, has_weights_, top_data, top_diff, pd, diff_,
                 errors_, ones_, history>>

\* LossLayer<Dtype>::Reshape: the top becomes a scalar; the leading dimension
\* of the bottoms may differ
LossLayerReshape(sh) == TRUE

\* the SSD variant of the checks: has_weights_ only with exactly three bottoms
ShapeChecksSSD(sh) ==
  /\ sh[1].channels = sh[2].channels
  /\ sh[1].height = sh[2].height
  /\ sh[1].width = sh[2].width
  /\ (nb = 3) =>
       /\ sh[1].channels = sh[3].channels
       /\ sh[1].height = sh[3].height
       /\ sh[1].width = sh[3].width

\* the CHECK_EQs of Reshape
ShapeChecks(sh) ==
  /\ sh[1].channels = sh[2].channels
  /\ sh[1].height = sh[2].height
  /\ sh[1].width = sh[2].width
  /\ has_weights_ =>
       /\ sh[1].channels = sh[3].channels
       /\ sh[1].height = sh[3].height
       /\ sh[1].width = sh[3].width
       /\ (nb > 3) =>
            /\ sh[1].channels = sh[4].channels
            /\ sh[1].height = sh[4].height
            /\ sh[1].width = sh[4].width

Reshape ==
  /\ pc \in {"shaped", "reshaped", "ready"}
  /\ IF LossLayerReshape(shape) /\ ShapeChecks(shape)
     THEN /\ diff_' = BlobReshape(diff_, shape[1])
          /\ errors_' = BlobReshape(errors_, shape[1])
          /\ ones_' = [shape |-> shape[1], data |-> Fill(Count(shape[1]), One)]
          /\ pc' = IF pc = "shaped" THEN "reshaped" ELSE pc
     ELSE /\ pc' = "aborted"
          /\ UNCHANGED <<diff_, errors_, ones_>>
  /\ UNCHANGED <<nb, sigma, sigma2_, has_weights_, shape, data, gdiff, top_data, top_diff,
                 pd, history>>

\* the host fills the value views, leaves stale gradients, sets the upstream
\* gradient and fixes which bottoms get a gradient
HostFill ==
  /\ pc = "reshaped"
  /\ \E b0 \in [1..Count(shape[1]) -> PredVals] :
     \E b1 \in [1..Count(shape[2]) -> TargetVals] :
     \E b2 \in IF nb >= 3 THEN [1..Count(shape[3]) -> WeightVals] ELSE {<<>>} :
     \E b3 \in IF nb >= 4 THEN [1..Count(shape[4]) -> WeightVals] ELSE {<<>>} :
       data' = [k \in 1..nb |->
                  IF k = 1 THEN b0 ELSE IF k = 2 THEN b1 ELSE IF k = 3 THEN b2 ELSE b3]
  /\ gdiff' = [k \in 1..nb |-> Fill(Count(shape[k]), Stale)]
  /\ top_diff' \in TopDiffs
  /\ pd' \in [1..2 -> BOOLEAN]
  /\ pc' = "ready"
  /\ UNCHANGED <<nb, sigma, sigma2_, has_weights_, shape, top_data, diff_, errors_,
                 ones_, history>>

\* the smoothed-L1 value of one element of diff_
SmoothL1(val) ==
  LET abs_val == RAbs(val)
  IN  IF RLt(abs_val, RDiv(One, sigma2_))
      THEN RMul(RMul(RMul(Half, val), val), sigma2_)
      ELSE RSub(abs_val, RDiv(Half, sigma2_))

\* caffe_cpu_dot(n, x, y)
RECURSIVE Dot(_, _, _)
Dot(n, x, y) == IF n = 0 THEN Zero ELSE RAdd(Dot(n - 1, x, y), RMul(x[n], y[n]))

\* diff_ after caffe_sub and the caffe_mul by the inside weights, elements
\* 0..n-1
RECURSIVE ForwardDiff(_, _)
ForwardDiff(n, junk) ==
  IF n = 0 THEN <<>>
  ELSE LET sub == RSub(Rd(data[1], n, junk), Rd(data[2], n, junk))
       IN  Append(ForwardDiff(n - 1, junk),
                  IF has_weights_ THEN RMul(Rd(data[3], n, junk), sub) ELSE sub)

\* errors_ after the loop over diff data d and the caffe_mul by the outside
\* weights, elements 0..n-1
RECURSIVE ForwardErrors(_, _, _)
ForwardErrors(n, d, junk) ==
  IF n = 0 THEN <<>>
  ELSE Append(ForwardErrors(n - 1, d, junk),
              IF has_weights_ /\ nb > 3
              THEN RMul(Rd(data[4], n, junk), SmoothL1(d[n]))
              ELSE SmoothL1(d[n]))

\* the bottom elements Forward_cpu reads, as <<tensor, view, index>>
ForwardReads(count) ==
  { <<k, "data", i>> : k \in 1..2, i \in 0..(count - 1) }
    \cup (IF has_weights_ THEN { <<3, "data", i>> : i \in 0..(count - 1) } ELSE {})
    \cup (IF has_weights_ /\ nb > 3 THEN { <<4, "data", i>> : i \in 0..(count - 1) } ELSE {})

Forward ==
  /\ pc = "ready"
  /\ \E junk \in Junk(Count(shape[1])) :
       LET count == Count(shape[1])
       IN  /\ diff_' = [diff_ EXCEPT !.data = ForwardDiff(count, junk)]
           /\ errors_' = [errors_ EXCEPT !.data = ForwardErrors(count, diff_'.data, junk)]
           /\ top_data' = RDiv(Dot(count, ones_.data, errors_'.data), FromInt(shape[1].num))
           /\ fdiff' = diff_'.data
           /\ acc' = ForwardReads(count)
  /\ lastop' = "forward"
  /\ nbwd' = 0
  /\ UNCHANGED <<pc, nb, sigma, sigma2_, has_weights_, shape, data, gdiff, top_diff,
                 pd, ones_, wr>>

Sign(val) ==
  FromInt((IF RLt(Zero, val) THEN 1 ELSE 0) - (IF RLt(val, Zero) THEN 1 ELSE 0))

\* f'(x) of one element of diff_
Deriv(val) ==
  IF RLt(RAbs(val), RDiv(One, sigma2_)) THEN RMul(sigma2_, val) ELSE Sign(val)

\* diff_ after the first loop of Backward_cpu, elements 0..n-1
RECURSIVE BackwardDiff(_)
BackwardDiff(n) ==
  IF n = 0 THEN <<>> ELSE Append(BackwardDiff(n - 1), Deriv(diff_.data[n]))

\* the two signs exchanged
InputSignSwapped(k) == IF k = 1 THEN RNeg(One) ELSE One

\* sign of the gradient of bottom[k-1]
InputSign(k) == IF k = 1 THEN One ELSE RNeg(One)

\* alpha of the pass for bottom[k-1]
Alpha(k) == RDiv(RMul(InputSign(k), top_diff), FromInt(shape[k].num))

\* the values the pass for bottom[k-1] stores at indices 0..n-1 of its
\* gradient view, which holds gd when the pass starts: caffe_cpu_axpby with
\* beta 0 over the derivative g, then the two caffe_muls
RECURSIVE Stored(_, _, _, _, _)
Stored(k, n, g, gd, junk) ==
  IF n = 0 THEN <<>>
  ELSE LET ax == RAdd(RMul(Alpha(k), g[n]), RMul(Zero, Rd(gd, n, junk)))
           in == IF has_weights_ THEN RMul(Rd(data[3], n, junk), ax) ELSE ax
       IN  Append(Stored(k, n - 1, g, gd, junk),
                  IF has_weights_ /\ nb > 3 THEN RMul(Rd(data[4], n, junk), in) ELSE in)

\* where a store past the end of a gradient view may land: on an element of
\* another bottom's gradient view, or on memory no blob owns
Nowhere == <<0, 0>>
Landings(count) ==
  IF \E k \in 1..2 : pd[k] /\ Len(gdiff[k]) < count
  THEN { <<t, j>> \in (1..nb) \X (1..MaxCount) : j <= Len(gdiff[t]) } \cup {Nowhere}
  ELSE {Nowhere}

\* the gradient views after the pass for bottom[k-1] has stored st at
\* indices 0..count-1 of a view of len elements
WritePass(gd, k, count, st, lands) ==
  [t \in 1..nb |->
     [j \in 1..Len(gd[t]) |->
        IF t = k /\ j <= count THEN st[j]
        ELSE IF t # k /\ count > Len(gd[k]) /\ lands = <<t, j>> THEN st[Len(gd[k]) + 1]
        ELSE gd[t][j]]]

\* the bottom elements Backward_cpu touches, as <<tensor, view, index>>
BackwardAccesses(count, p) ==
  LET any == p[1] \/ p[2]
  IN  { <<k, "diff", i>> : k \in {x \in 1..2 : p[x]}, i \in 0..(count - 1) }
        \cup (IF any /\ has_weights_ THEN { <<3, "data", i>> : i \in 0..(count - 1) } ELSE {})
        \cup (IF any /\ has_weights_ /\ nb > 3
              THEN { <<4, "data", i>> : i \in 0..(count - 1) } ELSE {})

Backward ==
  /\ pc = "ready"
  /\ fdiff # <<>>
  /\ \E junk \in Junk(Count(diff_.shape)) : \E lands \in Landings(Count(diff_.shape)) :
       LET count == Count(diff_.shape)
       IN  /\ diff_' = [diff_ EXCEPT !.data = BackwardDiff(count)]
           /\ IF pd[1]
              THEN \E st1 \in {Stored(1, count, diff_'.data, gdiff[1], junk)} :
                     LET gd1 == WritePass(gdiff, 1, count, st1, lands)
                     IN  IF pd[2]
                         THEN \E st2 \in {Stored(2, count, diff_'.data, gd1[2], junk)} :
                                /\ gdiff' = WritePass(gd1, 2, count, st2, lands)
                                /\ wr' = <<st1, st2>>
                         ELSE /\ gdiff' = gd1
                              /\ wr' = <<st1, <<>> >>
              ELSE IF pd[2]
                   THEN \E st2 \in {Stored(2, count, diff_'.data, gdiff[2], junk)} :
                          /\ gdiff' = WritePass(gdiff, 2, count, st2, lands)
                          /\ wr' = << <<>>, st2>>
                   ELSE /\ gdiff' = gdiff
                        /\ wr' = << <<>>, <<>> >>
           /\ acc' = BackwardAccesses(count, pd)
  \* a store past the end of a gradient view has damaged the heap: what the
  \* process does afterwards is not modelled
  /\ pc' = IF \E k \in 1..2 : pd[k] /\ Len(gdiff[k]) < Count(diff_.shape)
           THEN "corrupted" ELSE pc
  /\ lastop' = "backward"
  /\ nbwd' = IF nbwd = 0 THEN 1 ELSE 2
  /\ UNCHANGED <<nb, sigma, sigma2_, has_weights_, shape, data, top_data, top_diff,
                 pd, errors_, ones_, fdiff>>

LossNext ==
  \/ LayerSetUp /\ UNCHANGED rd_vars
  \/ HostShape /\ UNCHANGED rd_vars
  \/ Reshape /\ UNCHANGED rd_vars
  \/ HostFill /\ UNCHANGED rd_vars
  \/ Forward /\ UNCHANGED rd_vars
  \/ Backward /\ UNCHANGED rd_vars

RoundIdle ==
  /\ rd_pc = "new"
  /\ rd_inplace = FALSE
  /\ rd_shape = <<>>
  /\ rd_in = <<Zero>>
  /\ rd_arg = <<>>
  /\ rd_top_shape = <<>>
  /\ rd_out = <<Zero>>

Init == LossInit /\ RoundIdle

Spec == Init /\ [][LossNext]_vars

-----------------------------------------------------------------------------
(* RoundLayer *)

RoundShapes ==
  { s \in UNION { [1..n -> 1..MaxDim] : n \in 0..MaxAxes } : Prod(s) <= RoundMaxCount }

RoundVals == { Q(k, 4) : k \in (-RoundRange)..RoundRange }

\* round(): halves away from zero
RintHalfAway(x) ==
  LET a == RAbs(x)
      m == Floor(RAdd(a, Half))
  IN  FromInt(IF x[1] < 0 THEN -m ELSE m)

\* rint() in the default rounding mode FE_TONEAREST: nearest integer, halves to even
Rint(x) ==
  LET f == Floor(x)
      r == RSub(x, FromInt(f))
  IN  IF RLt(r, Half) THEN FromInt(f)
      ELSE IF RLt(Half, r) THEN FromInt(f + 1)
      ELSE IF f % 2 = 0 THEN FromInt(f) ELSE FromInt(f + 1)

RoundInit ==
  /\ rd_pc = "new"
  /\ rd_inplace \in BOOLEAN
  /\ rd_shape = <<>>
  /\ rd_in = <<Zero>>
  /\ rd_arg = <<>>
  /\ rd_top_shape = <<>>
  /\ rd_out = <<Zero>>

\* the host shapes and fills bottom[0] (top[0] is the same blob when in place)
RoundHostFeed ==
  /\ rd_pc = "new"
  /\ \E s \in RoundShapes : \E d \in [1..Prod(s) -> RoundVals] :
       /\ rd_shape' = s
       /\ rd_in' = d
       /\ rd_top_shape' = IF rd_inplace THEN s ELSE rd_top_shape
       /\ rd_out' = IF rd_inplace THEN d ELSE rd_out
  /\ rd_pc' = "fed"
  /\ UNCHANGED <<rd_inplace, rd_arg>>

\* Blob::ReshapeLike keeps the stored values when the count does not grow
\* and gives zeroed storage otherwise
ReshapeLikeData(old, n) ==
  IF n <= Len(old) THEN SubSeq(old, 1, n) ELSE [i \in 1..n |-> Zero]

RoundReshape ==
  /\ rd_pc \in {"fed", "ready", "done"}
  /\ LET count == Prod(rd_shape)
         newshape == rd_shape
     IN  /\ rd_top_shape' = newshape
         /\ rd_out' = IF rd_inplace THEN rd_in ELSE ReshapeLikeData(rd_out, Prod(newshape))
         /\ rd_pc' = IF count # Prod(newshape) THEN "aborted"
                     ELSE IF rd_pc = "fed" THEN "ready" ELSE rd_pc
  /\ UNCHANGED <<rd_inplace, rd_shape, rd_in, rd_arg>>

RoundForward ==
  /\ rd_pc \in {"ready", "done"}
  /\ LET count == Prod(rd_shape)
         res == [i \in 1..count |-> Rint(rd_in[i])]
     IN  /\ rd_out' = res
         /\ rd_in' = IF rd_inplace THEN res ELSE rd_in
  /\ rd_arg' = rd_in
  /\ rd_pc' = "done"
  /\ UNCHANGED <<rd_inplace, rd_shape, rd_top_shape>>

RoundNext ==
  \/ RoundHostFeed /\ UNCHANGED loss_vars
  \/ RoundReshape /\ UNCHANGED loss_vars
  \/ RoundForward /\ UNCHANGED loss_vars

InitRound == RoundInit /\ LossIdle

SpecRound == InitRound /\ [][RoundNext]_vars

-----------------------------------------------------------------------------
(* Specifications of parts of the loss layer *)

\* shape propagation alone
ReshapeNext ==
  \/ LayerSetUp /\ UNCHANGED rd_vars
  \/ HostShape /\ UNCHANGED rd_vars
  \/ Reshape /\ UNCHANGED rd_vars

SpecReshape == Init /\ [][ReshapeNext]_vars

\* the layer with two bottoms: no weights
InitNoWeights == (\E s \in Sigmas : LossFields(2, s)) /\ RoundIdle

SpecNoWeights == InitNoWeights /\ [][LossNext]_vars

-----------------------------------------------------------------------------
(* What the claims say, written from their wording *)

SgnI(x) == IF x[1] > 0 THEN 1 ELSE IF x[1] < 0 THEN -1 ELSE 0
Sigma2 == RMul(sigma, sigma)
Knee == RDiv(One, Sigma2)
N0 == Count(shape[1])

\* every bottom has an element at each index below count(bottom[0])
InBounds == \A k \in 2..nb : N0 <= Len(data[k])

ClaimD(i) ==
  LET d0 == RSub(data[1][i], data[2][i])
  IN  IF nb >= 3 THEN RMul(d0, data[3][i]) ELSE d0

ClaimE(i) ==
  LET d == ClaimD(i)
      e0 == IF RLt(RAbs(d), Knee)
            THEN RMul(Half, RMul(RMul(d, d), Sigma2))
            ELSE RSub(RAbs(d), RDiv(Half, Sigma2))
  IN  IF nb = 4 THEN RMul(e0, data[4][i]) ELSE e0

RECURSIVE ClaimSum(_)
ClaimSum(n) == IF n = 0 THEN Zero ELSE RAdd(ClaimSum(n - 1), ClaimE(n))

ClaimLoss == RDiv(ClaimSum(N0), FromInt(shape[1].num))

ClaimG(d) == IF RLt(RAbs(d), Knee) THEN RMul(Sigma2, d) ELSE FromInt(SgnI(d))

ClaimGrad(k, j) ==
  LET alpha == RDiv(RMul(FromInt(IF k = 1 THEN 1 ELSE -1), top_diff), FromInt(shape[k].num))
      a == RMul(alpha, ClaimG(fdiff[j]))
      b == IF nb >= 3 THEN RMul(a, data[3][j]) ELSE a
  IN  IF nb = 4 THEN RMul(b, data[4][j]) ELSE b

\* C1: after Forward the scalar output is (sum of e[i]) / num(bottom[0]),
\* e[i] computed from the current inputs alone; every input element the sum
\* names exists.
C1_ForwardLoss ==
  lastop = "forward" => InBounds /\ top_data = ClaimLoss

\* Forward on bottoms none of which is shorter than bottom[0]: the output is
\* the sum the claim C1 gives, whatever Forward and Backward calls went before
ForwardLossInBounds ==
  (lastop = "forward" /\ InBounds) => top_data = ClaimLoss

\* C2: after a Backward that directly follows a Forward, every gradient
\* element of each input k in {0,1} with propagate_down[k] holds
\* alpha_k * g[i] times the weights, g from the diff of that Forward.
C2_BackwardGrad ==
  (lastop = "backward" /\ nbwd = 1) =>
    \A k \in 1..2 : pd[k] =>
      \A j \in 1..Len(gdiff[k]) :
        /\ j <= Len(fdiff)
        /\ \A t \in 3..nb : j <= Len(data[t])
        /\ gdiff[k][j] = ClaimGrad(k, j)

\* Backward on bottoms that all have count(bottom[0]) elements: the gradients
\* are the ones the claim C2 gives
BackwardGradInBounds ==
  (lastop = "backward" /\ nbwd = 1 /\ \A k \in 2..nb : Len(data[k]) = N0) =>
    \A k \in 1..2 : pd[k] =>
      \A j \in 1..Len(gdiff[k]) : gdiff[k][j] = ClaimGrad(k, j)

\* C4: Reshape aborts exactly when channels, height or width of a bottom
\* differs from bottom[0]'s (a different num alone is accepted), and after a
\* successful Reshape diff_, errors_ and ones_ have bottom[0]'s shape and ones_
\* holds 1.0 everywhere.
ChwDiffers(k) ==
  \/ shape[k].channels # shape[1].channels
  \/ shape[k].height # shape[1].height
  \/ shape[k].width # shape[1].width

C4_Reshape ==
  /\ pc = "aborted" => \E k \in 2..nb : ChwDiffers(k)
  /\ pc \in {"reshaped", "ready", "corrupted"} =>
       /\ \A k \in 2..nb : ~ChwDiffers(k)
       /\ diff_.shape = shape[1] /\ Len(diff_.data) = N0
       /\ errors_.shape = shape[1] /\ Len(errors_.data) = N0
       /\ ones_.shape = shape[1] /\ Len(ones_.data) = N0
       /\ \A i \in 1..N0 : ones_.data[i] = One

C4_Witness ==
  /\ pc = "reshaped"
  /\ nb = 4
  /\ shape[1].num = 2
  /\ shape[2].num = 1 /\ shape[3].num = 1 /\ shape[4].num = 1

\* C5 as stated: with two bottoms and a positive upstream gradient, Backward
\* with propagate_down[0] stores a gradient of sign +1 at every element whose
\* Forward diff has |diff| >= 1/sigma2.
C5_SignPlus ==
  (lastop = "backward" /\ nb = 2 /\ SgnI(top_diff) = 1 /\ pd[1]) =>
    \A i \in 1..Len(fdiff) :
      RLe(Knee, RAbs(fdiff[i])) => SgnI(wr[1][i]) = 1

\* C5 as amended: the gradient stored at such an element has the sign of
\* diff[i], +1 for a positive diff and -1 for a negative one, and is what the
\* prediction's gradient view holds when Backward returns.
C5_SignOfDiff ==
  (lastop = "backward" /\ nb = 2 /\ SgnI(top_diff) = 1 /\ pd[1]) =>
    \A i \in 1..Len(fdiff) :
      RLe(Knee, RAbs(fdiff[i])) =>
        /\ SgnI(wr[1][i]) = SgnI(fdiff[i])
        /\ SgnI(wr[1][i]) # 0
        /\ pc = "ready" => gdiff[1][i] = wr[1][i]

C5_Witness ==
  /\ lastop = "backward" /\ nb = 2 /\ SgnI(top_diff) = 1 /\ pd[1] /\ pc = "ready"
  /\ Len(fdiff) = 2
  /\ RLe(Knee, RAbs(fdiff[1])) /\ SgnI(fdiff[1]) = -1 /\ SgnI(gdiff[1][1]) = -1
  /\ RLe(Knee, RAbs(fdiff[2])) /\ SgnI(fdiff[2]) = 1 /\ SgnI(gdiff[1][2]) = 1

\* C6: when every element of the weight bottoms is >= 0, every element of
\* errors_ and the scalar loss written by Forward are >= 0.
WeightsNonNegative == \A t \in 3..nb : \A j \in 1..Len(data[t]) : RLe(Zero, data[t][j])

C6_NonNegative ==
  (lastop = "forward" /\ WeightsNonNegative) =>
    /\ \A i \in 1..Len(errors_.data) : RLe(Zero, errors_.data[i])
    /\ RLe(Zero, top_data)

\* the same, on bottoms none of which is shorter than bottom[0]
NonNegativeInBounds ==
  (lastop = "forward" /\ WeightsNonNegative /\ InBounds) =>
    /\ \A i \in 1..Len(errors_.data) : RLe(Zero, errors_.data[i])
    /\ RLe(Zero, top_data)

\* C7: with three or more bottoms and an all-zero inside-weight bottom,
\* Forward writes loss 0 and the Backward that follows writes 0 into every
\* gradient element of each input it propagates to.
InsideWeightsZero == nb >= 3 /\ \A j \in 1..Len(data[3]) : data[3][j] = Zero

C7_Masking ==
  InsideWeightsZero =>
    /\ lastop = "forward" => top_data = Zero
    /\ (lastop = "backward" /\ nbwd = 1) =>
         \A k \in 1..2 : pd[k] => \A j \in 1..Len(gdiff[k]) : gdiff[k][j] = Zero

\* the same, on bottoms that all have count(bottom[0]) elements
MaskingInBounds ==
  (InsideWeightsZero /\ \A k \in 2..nb : Len(data[k]) = N0) =>
    /\ lastop = "forward" => top_data = Zero
    /\ (lastop = "backward" /\ nbwd = 1) =>
         \A k \in 1..2 : pd[k] => \A j \in 1..Len(gdiff[k]) : gdiff[k][j] = Zero

\* C8: no Reshape, Forward or Backward step changes a value view or the
\* gradient view of a weight bottom, and a Backward step leaves the gradient
\* view of input k in {0,1} alone when propagate_down[k] is false.
FrameKept ==
  /\ data' = data
  /\ \A t \in 3..nb : gdiff'[t] = gdiff[t]
  /\ \A k \in 1..2 : (lastop' = "backward" /\ ~pd[k]) => gdiff'[k] = gdiff[k]

C8_Frame == [][(pc \in {"shaped", "ready"}) => FrameKept]_vars

\* the same for the steps that store nothing past the end of a gradient view
FrameInBounds ==
  [][(pc \in {"shaped", "ready"} /\ pc' # "corrupted") => FrameKept]_vars

\* C9: a Backward that follows a Backward, with the same upstream gradient,
\* flags and inputs, writes the same input gradients again.
GradientsKept == \A k \in 1..2 : pd[k] => gdiff'[k] = gdiff[k]

C9_Repeatable ==
  [][(pc = "ready" /\ lastop = "backward" /\ lastop' = "backward") => GradientsKept]_vars

\* C9 on bottoms that all have count(bottom[0]) elements
RepeatableInBounds ==
  [][(pc = "ready" /\ lastop = "backward" /\ lastop' = "backward"
        /\ \A k \in 2..nb : Len(data[k]) = N0) => GradientsKept]_vars

\* C10: every access of Forward and Backward to a bottom uses an index below
\* the element count of the tensor it accesses.
C10_InBounds ==
  \A a \in acc : a[3] < Count(shape[a[1]])

-----------------------------------------------------------------------------
(* C3: after Reshape the output has the input's shape and count, and       *)
(* after Forward every output element is the integer nearest to the input  *)
(* element Forward was given, an exact half going to the even neighbour.   *)

NearestEven(z, x) ==
  LET twice == RMul(FromInt(2), RAbs(RSub(x, z)))
  IN  /\ IsInt(z)
      /\ RLe(twice, One)
      /\ (twice = One => z[1] % 2 = 0)

C3_Round ==
  /\ rd_pc \in {"ready", "done"} =>
       /\ rd_top_shape = rd_shape
       /\ Len(rd_out) = Prod(rd_shape)
  /\ rd_pc = "done" =>
       /\ Len(rd_arg) = Prod(rd_shape)
       /\ \A i \in 1..Prod(rd_shape) : NearestEven(rd_out[i], rd_arg[i])

C3_Witness ==
  /\ rd_pc = "done"
  /\ Len(rd_arg) = 2
  /\ rd_arg[1] = Q(5, 2) /\ rd_out[1] = FromInt(2)
  /\ rd_arg[2] = Q(-5, 2) /\ rd_out[2] = FromInt(-2)

=============================================================================
